---- MODULE Spec2Model ----
(***************************************************************************)
(* Model of the narwhals facade layer (narwhals/dataframe.py and           *)
(* narwhals/series.py): the constructors that detect the native engine,    *)
(* argument normalisation, and the facade operations that forward to the   *)
(* wrapped native object and re-wrap its result.                           *)
(*                                                                         *)
(* A client session holds one reference, x, the facade that receives the   *)
(* next call; other operands and facade arguments are built by the client  *)
(* with the constructors.  Every call is one action; it records what       *)
(* happened in `last`.  The native engines are collaborators: they are     *)
(* modelled by a small deterministic engine over column lists.             *)
(***************************************************************************)
EXTENDS Integers, Sequences, FiniteSets, TLC

VARIABLES installed, x, chain, last

vars == <<installed, x, chain, last>>

\* Bounds of the model.
MaxArgs == 2
MaxList == 2
MaxRows == 3
MaxValue == 3
MaxFactor == 2
MaxStrings == 2
MaxChars == 2
MaxHead == 3

Libs == {"polars", "pandas", "modin", "cudf"}

(***************************************************************************)
(* Values.  Every Python value is a record with a `kind` field.            *)
(***************************************************************************)
NoneObj == [kind |-> "None"]

Obj(kind, impl, cols) == [kind |-> kind, impl |-> impl, cols |-> cols]

Str(s) == Obj("str", "builtins", <<s>>)
IntLit(n) == Obj("int", "builtins", <<ToString(n)>>)
Dict(from, to) == Obj("dict", "builtins", <<from, to>>)
List(items) == [kind |-> "list", items |-> items]
NwExpr(c) == Obj("nw.Expr", "narwhals", <<c>>)
PlExpr(c) == Obj("pl.Expr", "polars", <<c>>)

\* col(c) * k
NwExprMul(c, k) == [kind |-> "nw.Expr", impl |-> "narwhals", cols |-> <<c>>, mul |-> k]

\* An engine frame with one integer column "a" holding the given values.
DataFrameOf(kind, impl, values) ==
    [kind |-> kind, impl |-> impl, cols |-> <<"a">>, data |-> [a |-> values]]

AB == <<"a", "b">>

FrameKinds == {"nw.DataFrame", "nw.LazyFrame"}
FacadeKinds == FrameKinds \cup {"nw.Series"}

IsFrame(o) == o.kind \in FrameKinds
IsSeries(o) == o.kind = "nw.Series"
IsFacade(o) == o.kind \in FacadeKinds

\* The object a facade wraps (_dataframe of a frame, _series of a Series).
Wrapped(f) == IF IsSeries(f) THEN f.series ELSE f.dataframe

\* The objects of the installed libraries a caller can hold.
\* Instances of client subclasses of pl.DataFrame and pl.Series that define
\* the marker methods (each returns the object itself) and
\* __narwhals_namespace__ (returning the Polars module).
MarkedFrame ==
    [kind |-> "pl.DataFrame", impl |-> "polars", cols |-> AB,
     markers |-> {"__narwhals_dataframe__", "__narwhals_lazyframe__"}]

MarkedSeries ==
    [kind |-> "pl.Series", impl |-> "polars", cols |-> <<"a">>,
     markers |-> {"__narwhals_series__"}]

RawObjects(I) ==
    {Obj("dict", "builtins", AB)}
    \cup (IF "polars" \in I
          THEN {Obj("pl.DataFrame", "polars", AB), Obj("pl.LazyFrame", "polars", AB),
                Obj("pl.Series", "polars", <<"a">>), MarkedFrame, MarkedSeries}
          ELSE {})
    \cup (IF "pandas" \in I
          THEN {Obj("pd.DataFrame", "pandas", AB), Obj("pd.Series", "pandas", <<"a">>),
                Obj("PandasDataFrame", "pandas", AB), Obj("PandasSeries", "pandas", <<"a">>)}
          ELSE {})
    \cup (IF "modin" \in I
          THEN {Obj("mpd.DataFrame", "modin", AB), Obj("mpd.Series", "modin", <<"a">>)}
          ELSE {})
    \cup (IF "cudf" \in I
          THEN {Obj("cudf.DataFrame", "cudf", AB), Obj("cudf.Series", "cudf", <<"a">>)}
          ELSE {})

(***************************************************************************)
(* Sequence helpers.                                                       *)
(***************************************************************************)
Range(s) == {s[i] : i \in DOMAIN s}

NoDup(s) == \A i, j \in DOMAIN s : s[i] = s[j] => i = j

RECURSIVE Concat(_)
Concat(ss) == IF ss = <<>> THEN <<>> ELSE Head(ss) \o Concat(Tail(ss))

Without(s, names) == SelectSeq(s, LAMBDA c : c \notin names)

\* Sequences over S of length at most n.
SeqUpTo(S, n) == UNION {[1..k -> S] : k \in 0..n}

(***************************************************************************)
(* Outcomes of calls.                                                      *)
(***************************************************************************)
Ok(v) == [err |-> "none", ret |-> v]
Raise(e) == [err |-> e, ret |-> NoneObj]

\* narwhals.dependencies.get_polars and friends: None when the library
\* cannot be imported.
get_polars == "polars" \in installed
get_pandas == "pandas" \in installed
get_modin == "modin" \in installed
get_cudf == "cudf" \in installed

(***************************************************************************)
(* The native engines (collaborators).                                     *)
(***************************************************************************)
FrameOps == {"select", "filter", "with_columns", "sort", "rename", "drop",
             "unique", "head", "drop_nulls", "join"}
SeriesOps == {"is_in", "alias", "mean"}

RawPandasLike == {"pd.DataFrame", "mpd.DataFrame", "cudf.DataFrame"}

MethodsOf(o) ==
   (CASE o.kind = "pl.DataFrame" -> FrameOps \cup {"lazy", "getitem", "to_dict", "schema"}
      [] o.kind = "pl.LazyFrame" -> FrameOps \cup {"lazy", "collect", "schema"}
      [] o.kind = "PandasDataFrame" ->
            FrameOps \cup {"lazy", "collect", "getitem", "to_dict", "schema",
                           "__narwhals_namespace__"}
      [] o.kind \in RawPandasLike -> {"head", "getitem"}
      [] o.kind = "pl.Series" -> SeriesOps \cup {"str.ends_with", "dt.year", "str.slice"}
      [] o.kind = "PandasSeries" ->
            SeriesOps \cup {"str.ends_with", "dt.year", "str.head", "__narwhals_namespace__"}
      [] o.kind = "pd.Series" -> {"str.slice"}
      [] OTHER -> {})
    \cup (IF "markers" \in DOMAIN o THEN {"__narwhals_namespace__"} ELSE {})

\* The namespace whose expressions the engine object understands.
EngineNs(o) == IF o.kind \in {"PandasDataFrame", "PandasSeries"} THEN "pandas_like" ELSE "polars"

\* A column reference the engine object accepts: the name of one of its
\* columns, or a native expression of its own namespace over one of them.
AcceptsRef(o, a) ==
    /\ a.kind \in {"str", "pl.Expr", "PandasExpr"}
    /\ a.kind = "pl.Expr" => EngineNs(o) = "polars"
    /\ a.kind = "PandasExpr" => EngineNs(o) = "pandas_like"
    /\ a.cols[1] \in Range(o.cols)

KwSeq(kw) == IF "b" \in DOMAIN kw THEN <<"b">> ELSE <<>>

SeriesKind(o) == IF o.kind = "PandasDataFrame" THEN "PandasSeries"
                 ELSE IF o.kind = "pl.DataFrame" THEN "pl.Series"
                 ELSE IF o.kind = "mpd.DataFrame" THEN "mpd.Series"
                 ELSE IF o.kind = "cudf.DataFrame" THEN "cudf.Series"
                 ELSE "pd.Series"

\* The native dtype of the columns of an engine object (the data of the
\* model are integer columns): a Polars dtype, or a pandas dtype name.
NativeDtype(o) == IF EngineNs(o) = "polars" THEN "pl.Int64" ELSE "int64"

\* A mapping with ordered entries (a Python dict).
Mapping(entries) == [kind |-> "dict", items |-> entries]

\* The values of column c of an engine object (the objects whose rows the
\* model does not follow have none).
DataOf(o, c) == IF "data" \in DOMAIN o THEN o.data[c] ELSE <<>>

\* The values an engine computes for a column reference: the column, or the
\* column multiplied elementwise.
Evaluate(o, ref) ==
    LET v == DataOf(o, ref.cols[1])
    IN  IF "mul" \in DOMAIN ref THEN [j \in DOMAIN v |-> v[j] * ref.mul] ELSE v

\* The frame an engine builds for select/with_columns: columns `cols`, each
\* computed by the reference that names it, or kept.
Project(o, cols, refs, named) ==
    IF "data" \notin DOMAIN o THEN [o EXCEPT !.cols = cols]
    ELSE [o EXCEPT !.cols = cols,
                   !.data = [c \in Range(cols) |->
                               IF c \in DOMAIN named THEN Evaluate(o, named[c])
                               ELSE IF \E i \in DOMAIN refs : refs[i].cols[1] = c
                               THEN Evaluate(o, refs[CHOOSE i \in DOMAIN refs : refs[i].cols[1] = c])
                               ELSE o.data[c]]]

\* The number an int argument stands for.
IntOf(a) == CHOOSE k \in 0..(MaxHead + 1) : ToString(k) = a.cols[1]

\* Polars str.slice(offset, length) and pandas str.slice(start, stop) with
\* start 0: the characters of s from `offset`, at most `length` of them.
StrSlice(s, offset, length) ==
    SubSeq(s, offset + 1, IF offset + length < Len(s) THEN offset + length ELSE Len(s))

\* The adapter's str.head(n), s[:n] for n >= 0: the first n characters.
StrHead(s, n) == IF n >= Len(s) THEN s ELSE [i \in 1..n |-> s[i]]

\* The series an engine builds by slicing every element.
SliceElements(o, offset, length) ==
    IF "data" \notin DOMAIN o THEN o
    ELSE [o EXCEPT !.data = [c \in DOMAIN o.data |->
                               [i \in DOMAIN o.data[c] |-> StrSlice(o.data[c][i], offset, length)]]]

\* The series the adapter builds by taking the head of every element.
HeadElements(o, n) ==
    IF "data" \notin DOMAIN o THEN o
    ELSE [o EXCEPT !.data = [c \in DOMAIN o.data |->
                               [i \in DOMAIN o.data[c] |-> StrHead(o.data[c][i], n)]]]

\* The engine's series for column c of o.
ColumnOf(o, c) ==
    IF "data" \notin DOMAIN o THEN Obj(SeriesKind(o), o.impl, <<c>>)
    ELSE [kind |-> SeriesKind(o), impl |-> o.impl, cols |-> <<c>>, data |-> [n \in {c} |-> o.data[c]]]

EngineCall(o, m, args, kw) ==
    IF m \notin MethodsOf(o) THEN Raise("NativeError")
    ELSE CASE m \in {"select", "with_columns"} ->
                IF /\ \A i \in DOMAIN args : AcceptsRef(o, args[i])
                   /\ \A k \in DOMAIN kw : AcceptsRef(o, kw[k])
                THEN LET named == [i \in DOMAIN args |-> args[i].cols[1]] \o KwSeq(kw)
                         cols == IF m = "select" THEN named
                                 ELSE o.cols \o Without(KwSeq(kw), Range(o.cols))
                     IN  IF NoDup(cols) /\ cols # <<>>
                         THEN Ok(Project(o, cols, args, kw)) ELSE Raise("NativeError")
                ELSE Raise("NativeError")
           [] m = "filter" ->
                IF args # <<>> /\ DOMAIN kw = {} /\ \A i \in DOMAIN args : AcceptsRef(o, args[i])
                THEN Ok(o) ELSE Raise("NativeError")
           [] m = "sort" ->
                IF args # <<>> /\ DOMAIN kw = {"descending"}
                   /\ \A i \in DOMAIN args : AcceptsRef(o, args[i]) /\ args[i].kind = "str"
                THEN Ok(o) ELSE Raise("NativeError")
           [] m = "unique" ->
                IF DOMAIN kw = {"subset"} /\ AcceptsRef(o, kw.subset) /\ args = <<>>
                THEN Ok(o) ELSE Raise("NativeError")
           [] m = "rename" ->
                IF Len(args) = 1 /\ args[1].kind = "dict" /\ args[1].cols[1] \in Range(o.cols)
                   /\ args[1].cols[2] \notin Range(o.cols)
                THEN Ok([o EXCEPT !.cols = [i \in DOMAIN o.cols |->
                            IF o.cols[i] = args[1].cols[1] THEN args[1].cols[2] ELSE o.cols[i]]])
                ELSE Raise("NativeError")
           [] m = "head" ->
                IF Len(args) = 1 /\ args[1].kind = "int" THEN Ok(o) ELSE Raise("NativeError")
           [] m = "drop" ->
                IF /\ \A i \in DOMAIN args : args[i].kind = "str" /\ args[i].cols[1] \in Range(o.cols)
                   /\ Without(o.cols, {args[i].cols[1] : i \in DOMAIN args}) # <<>>
                THEN Ok([o EXCEPT !.cols = Without(o.cols, {args[i].cols[1] : i \in DOMAIN args})])
                ELSE Raise("NativeError")
           [] m = "drop_nulls" -> Ok(o)
           [] m = "join" ->
                IF Len(args) = 1 /\ args[1].kind = o.kind /\ args[1].impl = o.impl
                   /\ DOMAIN kw = {"how", "left_on", "right_on"}
                   /\ AcceptsRef(o, kw.left_on) /\ kw.left_on.kind = "str"
                   /\ AcceptsRef(args[1], kw.right_on) /\ kw.right_on.kind = "str"
                THEN Ok([o EXCEPT !.cols = o.cols \o Without(args[1].cols, Range(o.cols))])
                ELSE Raise("NativeError")
           [] m = "lazy" ->
                Ok(IF o.kind = "pl.DataFrame" THEN [o EXCEPT !.kind = "pl.LazyFrame"] ELSE o)
           [] m = "collect" ->
                Ok(IF o.kind = "pl.LazyFrame" THEN [o EXCEPT !.kind = "pl.DataFrame"] ELSE o)
           [] m = "getitem" ->
                IF Len(args) = 1 /\ args[1].kind = "str" /\ args[1].cols[1] \in Range(o.cols)
                THEN Ok(ColumnOf(o, args[1].cols[1]))
                ELSE Raise("NativeError")
           [] m = "to_dict" ->
                IF args = <<>> /\ DOMAIN kw = {"as_series"}
                THEN Ok(Mapping([i \in DOMAIN o.cols |->
                          [name |-> o.cols[i],
                           values |-> IF kw.as_series.cols[1] = "True"
                                      THEN ColumnOf(o, o.cols[i])
                                      ELSE List(DataOf(o, o.cols[i]))]]))
                ELSE Raise("NativeError")
           [] m = "schema" ->
                Ok(Mapping([i \in DOMAIN o.cols |-> [name |-> o.cols[i], dtype |-> NativeDtype(o)]]))
           [] m = "__narwhals_namespace__" ->
                Ok(IF EngineNs(o) = "polars" THEN Obj("namespace", "polars", <<>>)
                   ELSE Obj("namespace", "pandas_like", <<o.impl>>))
           [] m = "is_in" ->
                IF Len(args) = 1 /\ args[1].kind \in {o.kind, "list"}
                THEN Ok(o) ELSE Raise("NativeError")
           [] m = "alias" ->
                IF DOMAIN kw = {"name"} /\ kw.name.kind = "str"
                THEN Ok([o EXCEPT !.cols = kw.name.cols]) ELSE Raise("NativeError")
           [] m = "mean" -> Ok(Obj("float", "builtins", o.cols))
           [] m = "str.ends_with" ->
                IF Len(args) = 1 /\ args[1].kind = "str" THEN Ok(o) ELSE Raise("NativeError")
           [] m = "dt.year" -> Ok(o)
           [] m = "str.slice" ->
                IF Len(args) = 2 /\ args[1].kind = "int" /\ args[2].kind = "int"
                THEN Ok(SliceElements(o, IntOf(args[1]), IntOf(args[2])))
                ELSE Raise("NativeError")
           [] m = "str.head" ->
                IF Len(args) = 1 /\ args[1].kind = "int"
                THEN Ok(HeadElements(o, IntOf(args[1])))
                ELSE Raise("NativeError")
           [] OTHER -> Raise("NativeError")

(***************************************************************************)
(* Constructors (native detection).                                        *)
(***************************************************************************)
nwDataFrame(df, is_polars) == [kind |-> "nw.DataFrame", dataframe |-> df, is_polars |-> is_polars]
nwLazyFrame(df, is_polars) == [kind |-> "nw.LazyFrame", dataframe |-> df, is_polars |-> is_polars]
nwSeries(s, is_polars) == [kind |-> "nw.Series", series |-> s, is_polars |-> is_polars]

\* hasattr(obj, marker): the adapter classes carry the protocol markers; the
\* facade classes of dataframe.py and series.py define none of them.
HasAttr(o, marker) ==
    \/ o.kind = "PandasDataFrame" /\ marker \in {"__narwhals_dataframe__", "__narwhals_lazyframe__"}
    \/ o.kind = "PandasSeries" /\ marker = "__narwhals_series__"
    \/ "markers" \in DOMAIN o /\ marker \in o.markers

\* PandasDataFrame(df, implementation=...) and PandasSeries(...)
PandasDataFrame(df, implementation) ==
    [df EXCEPT !.kind = "PandasDataFrame", !.impl = implementation]

PandasSeries(s, implementation) ==
    [s EXCEPT !.kind = "PandasSeries", !.impl = implementation]

\* Variant: the Polars test imports Polars without the get_polars() guard.
DataFrame_init_import_polars(df, is_polars) ==
    IF HasAttr(df, "__narwhals_dataframe__") THEN Ok(nwDataFrame(df, is_polars))
    ELSE IF is_polars THEN Ok(nwDataFrame(df, TRUE))
    ELSE IF ~get_polars THEN Raise("ImportError")
    ELSE IF df.kind = "pl.DataFrame" THEN Ok(nwDataFrame(df, TRUE))
    ELSE IF df.kind = "pl.LazyFrame" THEN Raise("TypeError:wrong_mode")
    ELSE IF get_pandas /\ df.kind = "pd.DataFrame"
         THEN Ok(nwDataFrame(PandasDataFrame(df, "pandas"), is_polars))
    ELSE IF get_modin /\ df.kind = "mpd.DataFrame"
         THEN Ok(nwDataFrame(PandasDataFrame(df, "modin"), is_polars))
    ELSE IF get_cudf /\ df.kind = "cudf.DataFrame"
         THEN Ok(nwDataFrame(PandasDataFrame(df, "cudf"), is_polars))
    ELSE Raise("TypeError:unrecognized")

\* Variant: the Polars test comes before the marker test.
DataFrame_init_types_first(df, is_polars) ==
    IF is_polars \/ (get_polars /\ df.kind = "pl.DataFrame") THEN Ok(nwDataFrame(df, TRUE))
    ELSE IF HasAttr(df, "__narwhals_dataframe__") THEN Ok(nwDataFrame(df, is_polars))
    ELSE IF get_polars /\ df.kind = "pl.LazyFrame" THEN Raise("TypeError:wrong_mode")
    ELSE IF get_pandas /\ df.kind = "pd.DataFrame"
         THEN Ok(nwDataFrame(PandasDataFrame(df, "pandas"), is_polars))
    ELSE IF get_modin /\ df.kind = "mpd.DataFrame"
         THEN Ok(nwDataFrame(PandasDataFrame(df, "modin"), is_polars))
    ELSE IF get_cudf /\ df.kind = "cudf.DataFrame"
         THEN Ok(nwDataFrame(PandasDataFrame(df, "cudf"), is_polars))
    ELSE Raise("TypeError:unrecognized")

DataFrame_init(df, is_polars) ==
    IF HasAttr(df, "__narwhals_dataframe__") THEN Ok(nwDataFrame(df, is_polars))
    ELSE IF is_polars \/ (get_polars /\ df.kind = "pl.DataFrame") THEN Ok(nwDataFrame(df, TRUE))
    ELSE IF get_polars /\ df.kind = "pl.LazyFrame" THEN Raise("TypeError:wrong_mode")
    ELSE IF get_pandas /\ df.kind = "pd.DataFrame"
         THEN Ok(nwDataFrame(PandasDataFrame(df, "pandas"), is_polars))
    ELSE IF get_modin /\ df.kind = "mpd.DataFrame"
         THEN Ok(nwDataFrame(PandasDataFrame(df, "modin"), is_polars))
    ELSE IF get_cudf /\ df.kind = "cudf.DataFrame"
         THEN Ok(nwDataFrame(PandasDataFrame(df, "cudf"), is_polars))
    ELSE Raise("TypeError:unrecognized")

LazyFrame_init(df, is_polars) ==
    IF HasAttr(df, "__narwhals_lazyframe__") THEN Ok(nwLazyFrame(df, is_polars))
    ELSE IF is_polars \/ (get_polars /\ df.kind \in {"pl.DataFrame", "pl.LazyFrame"})
         THEN LET r == EngineCall(df, "lazy", <<>>, <<>>)
              IN  IF r.err # "none" THEN r ELSE Ok(nwLazyFrame(r.ret, TRUE))
    ELSE IF get_pandas /\ df.kind = "pd.DataFrame"
         THEN Ok(nwLazyFrame(PandasDataFrame(df, "pandas"), is_polars))
    ELSE IF get_modin /\ df.kind = "mpd.DataFrame"
         THEN Ok(nwLazyFrame(PandasDataFrame(df, "modin"), is_polars))
    ELSE IF get_cudf /\ df.kind = "cudf.DataFrame"
         THEN Ok(nwLazyFrame(PandasDataFrame(df, "cudf"), is_polars))
    ELSE Raise("TypeError:unrecognized")

\* Variant: Modin and cuDF series are adapted as the frame constructors
\* adapt Modin and cuDF frames.
Series_init_all_pandas_like(series, is_polars) ==
    IF HasAttr(series, "__narwhals_series__") THEN Ok(nwSeries(series, is_polars))
    ELSE IF is_polars \/ (get_polars /\ series.kind = "pl.Series") THEN Ok(nwSeries(series, TRUE))
    ELSE IF get_pandas /\ series.kind = "pd.Series"
         THEN Ok(nwSeries(PandasSeries(series, "pandas"), is_polars))
    ELSE IF get_modin /\ series.kind = "mpd.Series"
         THEN Ok(nwSeries(PandasSeries(series, "modin"), is_polars))
    ELSE IF get_cudf /\ series.kind = "cudf.Series"
         THEN Ok(nwSeries(PandasSeries(series, "cudf"), is_polars))
    ELSE Raise("TypeError:unrecognized")

Series_init(series, is_polars) ==
    IF HasAttr(series, "__narwhals_series__") THEN Ok(nwSeries(series, is_polars))
    ELSE IF is_polars \/ (get_polars /\ series.kind = "pl.Series") THEN Ok(nwSeries(series, TRUE))
    ELSE IF get_pandas /\ series.kind = "pd.Series"
         THEN Ok(nwSeries(PandasSeries(series, "pandas"), is_polars))
    ELSE Raise("TypeError:unrecognized")

\* self.__class__(obj, is_polars=...)
Construct(cls, obj, is_polars) ==
    CASE cls = "nw.DataFrame" -> DataFrame_init(obj, is_polars)
      [] cls = "nw.LazyFrame" -> LazyFrame_init(obj, is_polars)
      [] cls = "nw.Series" -> Series_init(obj, is_polars)

(***************************************************************************)
(* Argument normalisation.                                                 *)
(***************************************************************************)
\* "polars" in str(type(arg)): the classes of the Polars library, and any
\* class defined in a module whose name contains "polars".
PolarsKinds == {"pl.DataFrame", "pl.LazyFrame", "pl.Series", "pl.Expr"}

TypeNameHasPolars(arg) ==
    \/ arg.kind \in PolarsKinds
    \/ "module" \in DOMAIN arg /\ arg.module = "polars_ext"

PolarsNamespace == Obj("namespace", "polars", <<>>)

\* Variant: the Polars module is returned whatever the flag.
narwhals_namespace_always_polars(self) ==
    IF get_polars THEN Ok(PolarsNamespace) ELSE Raise("ImportError")

\* BaseFrame.__narwhals_namespace__ / Series.__narwhals_namespace__
narwhals_namespace(self) ==
    IF self.is_polars
    THEN (IF get_polars THEN Ok(PolarsNamespace) ELSE Raise("ImportError"))
    ELSE EngineCall(Wrapped(self), "__narwhals_namespace__", <<>>, <<>>)

\* Expr._call(namespace): the native expression of that namespace.
Expr_call(e, ns) ==
    [e EXCEPT !.kind = IF ns.impl = "polars" THEN "pl.Expr" ELSE "PandasExpr",
              !.impl = ns.impl]

\* Variant: the foreign-type test comes before the facade tests.
extract_native_foreign_first(self, arg) ==
    IF get_polars /\ TypeNameHasPolars(arg) THEN Raise("TypeError:guidance")
    ELSE IF IsFrame(arg) THEN Ok(arg.dataframe)
    ELSE IF IsSeries(arg) THEN Ok(arg.series)
    ELSE IF arg.kind = "nw.Expr"
         THEN LET ns == narwhals_namespace(self)
              IN  IF ns.err # "none" THEN ns ELSE Ok(Expr_call(arg, ns.ret))
    ELSE Ok(arg)

\* Variant: the foreign-type test is made whether or not Polars can be
\* imported.
extract_native_foreign_unguarded(self, arg) ==
    IF IsFrame(arg) THEN Ok(arg.dataframe)
    ELSE IF IsSeries(arg) THEN Ok(arg.series)
    ELSE IF arg.kind = "nw.Expr"
         THEN LET ns == narwhals_namespace(self)
              IN  IF ns.err # "none" THEN ns ELSE Ok(Expr_call(arg, ns.ret))
    ELSE IF TypeNameHasPolars(arg) THEN Raise("TypeError:guidance")
    ELSE Ok(arg)

\* Variant: the foreign-type test is made only by a facade that is not
\* Polars-backed.
extract_native_foreign_receiver_only(self, arg) ==
    IF IsFrame(arg) THEN Ok(arg.dataframe)
    ELSE IF IsSeries(arg) THEN Ok(arg.series)
    ELSE IF arg.kind = "nw.Expr"
         THEN LET ns == narwhals_namespace(self)
              IN  IF ns.err # "none" THEN ns ELSE Ok(Expr_call(arg, ns.ret))
    ELSE IF ~self.is_polars /\ get_polars /\ TypeNameHasPolars(arg) THEN Raise("TypeError:guidance")
    ELSE Ok(arg)

\* BaseFrame._extract_native
extract_native(self, arg) ==
    IF IsFrame(arg) THEN Ok(arg.dataframe)
    ELSE IF IsSeries(arg) THEN Ok(arg.series)
    ELSE IF arg.kind = "nw.Expr"
         THEN LET ns == narwhals_namespace(self)
              IN  IF ns.err # "none" THEN ns ELSE Ok(Expr_call(arg, ns.ret))
    ELSE IF get_polars /\ TypeNameHasPolars(arg) THEN Raise("TypeError:guidance")
    ELSE Ok(arg)

\* narwhals.utils.flatten: sequence arguments are flattened one level.
flatten(args) ==
    Concat([i \in DOMAIN args |-> IF args[i].kind = "list" THEN args[i].items ELSE <<args[i]>>])

Min(S) == CHOOSE m \in S : \A n \in S : m <= n

\* Variant: sequences are flattened two levels.
flatten_and_extract_deep(self, args, kwargs) ==
    LET flat == flatten(flatten(args))
        ea == [i \in DOMAIN flat |-> extract_native(self, flat[i])]
        ek == [k \in DOMAIN kwargs |-> extract_native(self, kwargs[k])]
        badA == {i \in DOMAIN flat : ea[i].err # "none"}
        badK == {k \in DOMAIN kwargs : ek[k].err # "none"}
    IN  IF badA # {} THEN [err |-> ea[Min(badA)].err, args |-> <<>>, kwargs |-> <<>>]
        ELSE IF badK # {}
             THEN [err |-> ek[CHOOSE k \in badK : TRUE].err, args |-> <<>>, kwargs |-> <<>>]
        ELSE [err |-> "none", args |-> [i \in DOMAIN flat |-> ea[i].ret],
              kwargs |-> [k \in DOMAIN kwargs |-> ek[k].ret]]

\* Variant: a sequence given as a keyword value is normalised element by
\* element.
flatten_and_extract_keywords_deep(self, args, kwargs) ==
    LET flat == flatten(args)
        ea == [i \in DOMAIN flat |-> extract_native(self, flat[i])]
        ek == [k \in DOMAIN kwargs |->
                 IF kwargs[k].kind = "list"
                 THEN Ok(List([i \in DOMAIN kwargs[k].items |->
                                  extract_native(self, kwargs[k].items[i]).ret]))
                 ELSE extract_native(self, kwargs[k])]
        badA == {i \in DOMAIN flat : ea[i].err # "none"}
        badK == {k \in DOMAIN kwargs : ek[k].err # "none"}
    IN  IF badA # {} THEN [err |-> ea[Min(badA)].err, args |-> <<>>, kwargs |-> <<>>]
        ELSE IF badK # {}
             THEN [err |-> ek[CHOOSE k \in badK : TRUE].err, args |-> <<>>, kwargs |-> <<>>]
        ELSE [err |-> "none", args |-> [i \in DOMAIN flat |-> ea[i].ret],
              kwargs |-> [k \in DOMAIN kwargs |-> ek[k].ret]]

\* BaseFrame._flatten_and_extract
flatten_and_extract(self, args, kwargs) ==
    LET flat == flatten(args)
        ea == [i \in DOMAIN flat |-> extract_native(self, flat[i])]
        ek == [k \in DOMAIN kwargs |-> extract_native(self, kwargs[k])]
        badA == {i \in DOMAIN flat : ea[i].err # "none"}
        badK == {k \in DOMAIN kwargs : ek[k].err # "none"}
    IN  IF badA # {} THEN [err |-> ea[Min(badA)].err, args |-> <<>>, kwargs |-> <<>>]
        ELSE IF badK # {}
             THEN [err |-> ek[CHOOSE k \in badK : TRUE].err, args |-> <<>>, kwargs |-> <<>>]
        ELSE [err |-> "none", args |-> [i \in DOMAIN flat |-> ea[i].ret],
              kwargs |-> [k \in DOMAIN kwargs |-> ek[k].ret]]

\* Series._extract_native
Series_extract_native(self, arg) == IF IsSeries(arg) THEN arg.series ELSE arg

(***************************************************************************)
(* Facade operations.  The outcome of a call records the error raised (or  *)
(* "none"), the value returned, the receiver as the call leaves it, whether*)
(* the value returned is the receiver object itself, the steps executed,   *)
(* and the arguments handed to the native operation.                       *)
(***************************************************************************)
Outcome(err, ret, self, same, trace, nargs, nkwargs) ==
    [err |-> err, ret |-> ret, self |-> self, same |-> same, trace |-> trace,
     nargs |-> nargs, nkwargs |-> nkwargs]

Native(m) == "native." \o m

\* Variant: the result is always re-wrapped as an eager DataFrame.
from_dataframe_eager(self, df) == Construct("nw.DataFrame", df, self.is_polars)

\* BaseFrame._from_dataframe
from_dataframe(self, df) == Construct(self.kind, df, self.is_polars)

\* Series._from_series
from_series(self, series) == Construct(self.kind, series, self.is_polars)

\* Variant: an error of the native operation is caught and replaced.
ForwardAndWrap_catching(self, m, nargs, nkwargs, trace) ==
    LET r == EngineCall(Wrapped(self), m, nargs, nkwargs)
    IN  IF r.err # "none"
        THEN Outcome("NarwhalsError", NoneObj, self, FALSE, Append(trace, Native(m)), nargs, nkwargs)
        ELSE LET c == from_dataframe(self, r.ret)
             IN  Outcome(c.err, c.ret, self, FALSE,
                         trace \o <<Native(m), "_from_dataframe">>, nargs, nkwargs)

\* The common tail `return self._from_dataframe(self._dataframe.m(*nargs, **nkwargs))`.
ForwardAndWrap(self, m, nargs, nkwargs, trace) ==
    LET r == EngineCall(Wrapped(self), m, nargs, nkwargs)
    IN  IF r.err # "none"
        THEN Outcome(r.err, NoneObj, self, FALSE, Append(trace, Native(m)), nargs, nkwargs)
        ELSE LET c == from_dataframe(self, r.ret)
             IN  Outcome(c.err, c.ret, self, FALSE,
                         trace \o <<Native(m), "_from_dataframe">>, nargs, nkwargs)

\* The methods that normalise with _flatten_and_extract.
NormalizeForwardAndWrap(self, m, args, kwargs) ==
    LET n == flatten_and_extract(self, args, kwargs)
    IN  IF n.err # "none"
        THEN Outcome(n.err, NoneObj, self, FALSE, <<"_flatten_and_extract">>, <<>>, <<>>)
        ELSE ForwardAndWrap(self, m, n.args, n.kwargs, <<"_flatten_and_extract">>)

with_columns(self, exprs, named_exprs) == NormalizeForwardAndWrap(self, "with_columns", exprs, named_exprs)

select(self, exprs, named_exprs) == NormalizeForwardAndWrap(self, "select", exprs, named_exprs)

\* Variant: the predicates are forwarded as given.
filter_unnormalized(self, predicates) == ForwardAndWrap(self, "filter", predicates, <<>>, <<>>)

filter(self, predicates) == NormalizeForwardAndWrap(self, "filter", predicates, <<>>)

\* Variant: the receiver takes the renamed frame and is returned itself.
rename_inplace(self, mapping) ==
    LET r == ForwardAndWrap(self, "rename", <<mapping>>, <<>>, <<>>)
    IN  IF r.err # "none" THEN r
        ELSE [r EXCEPT !.self = r.ret, !.same = TRUE]

rename(self, mapping) == ForwardAndWrap(self, "rename", <<mapping>>, <<>>, <<>>)

head(self, n) == ForwardAndWrap(self, "head", <<n>>, <<>>, <<>>)

drop(self, columns) == ForwardAndWrap(self, "drop", columns, <<>>, <<>>)

unique(self, subset) == ForwardAndWrap(self, "unique", <<>>, [subset |-> subset], <<>>)

sort(self, by, more_by, descending) ==
    ForwardAndWrap(self, "sort", <<by>> \o more_by, [descending |-> descending], <<>>)

drop_nulls(self) == ForwardAndWrap(self, "drop_nulls", <<>>, <<>>, <<>>)

\* narwhals.utils.validate_same_library([self, other])
validate_same_library(self, other) ==
    IF self.is_polars = other.is_polars THEN "none" ELSE "CrossLibraryError"

\* Variant: the join mode is tested after the same-library validation.
join_validate_first(self, other, how, left_on, right_on) ==
    IF ~IsFacade(other)
    THEN Outcome("AttributeError", NoneObj, self, FALSE, <<"validate_same_library">>, <<>>, <<>>)
    ELSE IF validate_same_library(self, other) # "none"
         THEN Outcome(validate_same_library(self, other), NoneObj, self, FALSE,
                      <<"validate_same_library">>, <<>>, <<>>)
    ELSE IF how # Str("inner")
         THEN Outcome("NotImplementedError", NoneObj, self, FALSE,
                      <<"validate_same_library", "how">>, <<>>, <<>>)
    ELSE LET o == extract_native(self, other)
             tr == <<"validate_same_library", "how", "_extract_native">>
         IN  IF o.err # "none" THEN Outcome(o.err, NoneObj, self, FALSE, tr, <<>>, <<>>)
             ELSE ForwardAndWrap(self, "join", <<o.ret>>,
                                 [how |-> how, left_on |-> left_on, right_on |-> right_on], tr)

join(self, other, how, left_on, right_on) ==
    IF how # Str("inner")
    THEN Outcome("NotImplementedError", NoneObj, self, FALSE, <<"how">>, <<>>, <<>>)
    ELSE IF ~IsFacade(other)
         THEN Outcome("AttributeError", NoneObj, self, FALSE, <<"how", "validate_same_library">>, <<>>, <<>>)
    ELSE IF validate_same_library(self, other) # "none"
         THEN Outcome(validate_same_library(self, other), NoneObj, self, FALSE,
                      <<"how", "validate_same_library">>, <<>>, <<>>)
    ELSE LET o == extract_native(self, other)
             tr == <<"how", "validate_same_library", "_extract_native">>
         IN  IF o.err # "none" THEN Outcome(o.err, NoneObj, self, FALSE, tr, <<>>, <<>>)
             ELSE ForwardAndWrap(self, "join", <<o.ret>>,
                                 [how |-> how, left_on |-> left_on, right_on |-> right_on], tr)

lazy(self) ==
    LET r == EngineCall(self.dataframe, "lazy", <<>>, <<>>)
    IN  IF r.err # "none"
        THEN Outcome(r.err, NoneObj, self, FALSE, <<Native("lazy")>>, <<>>, <<>>)
        ELSE LET c == LazyFrame_init(r.ret, FALSE)
             IN  Outcome(c.err, c.ret, self, FALSE, <<Native("lazy"), "LazyFrame">>, <<>>, <<>>)

collect(self) ==
    LET r == EngineCall(self.dataframe, "collect", <<>>, <<>>)
    IN  IF r.err # "none"
        THEN Outcome(r.err, NoneObj, self, FALSE, <<Native("collect")>>, <<>>, <<>>)
        ELSE LET c == DataFrame_init(r.ret, FALSE)
             IN  Outcome(c.err, c.ret, self, FALSE, <<Native("collect"), "DataFrame">>, <<>>, <<>>)

\* DataFrame.__getitem__
getitem(self, col_name) ==
    LET r == EngineCall(self.dataframe, "getitem", <<col_name>>, <<>>)
    IN  IF r.err # "none"
        THEN Outcome(r.err, NoneObj, self, FALSE, <<Native("getitem")>>, <<col_name>>, <<>>)
        ELSE LET c == Series_init(r.ret, FALSE)
             IN  Outcome(c.err, c.ret, self, FALSE, <<Native("getitem"), "Series">>, <<col_name>>, <<>>)

\* narwhals.dtypes.to_narwhals_dtype(dtype, is_polars=...)
to_narwhals_dtype(dtype, is_polars) ==
    IF is_polars
    THEN (IF dtype = "pl.Int64" THEN Ok("Int64") ELSE Raise("UnsupportedDtype"))
    ELSE (IF dtype = "int64" THEN Ok("Int64") ELSE Raise("UnsupportedDtype"))

\* Variant: the entries are produced in reverse order.
schema_reversed(self) ==
    LET r == EngineCall(self.dataframe, "schema", <<>>, <<>>)
    IN  IF r.err # "none"
        THEN Outcome(r.err, NoneObj, self, FALSE, <<Native("schema")>>, <<>>, <<>>)
        ELSE LET n == Len(r.ret.items)
                 vs == [i \in 1..n |-> to_narwhals_dtype(r.ret.items[n + 1 - i].dtype, self.is_polars)]
                 bad == {i \in 1..n : vs[i].err # "none"}
             IN  IF bad # {}
                 THEN Outcome(vs[Min(bad)].err, NoneObj, self, FALSE,
                              <<Native("schema"), "to_narwhals_dtype">>, <<>>, <<>>)
                 ELSE Outcome("none",
                              Mapping([i \in 1..n |-> [name |-> r.ret.items[n + 1 - i].name,
                                                       dtype |-> vs[i].ret]]),
                              self, FALSE, <<Native("schema"), "to_narwhals_dtype">>, <<>>, <<>>)

\* BaseFrame.schema
schema(self) ==
    LET r == EngineCall(self.dataframe, "schema", <<>>, <<>>)
    IN  IF r.err # "none"
        THEN Outcome(r.err, NoneObj, self, FALSE, <<Native("schema")>>, <<>>, <<>>)
        ELSE LET n == Len(r.ret.items)
                 vs == [i \in 1..n |-> to_narwhals_dtype(r.ret.items[i].dtype, self.is_polars)]
                 bad == {i \in 1..n : vs[i].err # "none"}
             IN  IF bad # {}
                 THEN Outcome(vs[Min(bad)].err, NoneObj, self, FALSE,
                              <<Native("schema"), "to_narwhals_dtype">>, <<>>, <<>>)
                 ELSE Outcome("none",
                              Mapping([i \in 1..n |-> [name |-> r.ret.items[i].name,
                                                       dtype |-> vs[i].ret]]),
                              self, FALSE, <<Native("schema"), "to_narwhals_dtype">>, <<>>, <<>>)

\* The functions a caller hands to pipe: the identity (one parameter), one
\* that calls select on the facade it is given with the arguments it is
\* given, and one that returns the tuple of everything it received.
PipeFunctions == {"identity", "select", "echo"}

Received(pargs, kwargs) == [kind |-> "tuple", items |-> pargs, kw |-> kwargs]

\* function(*pargs, **kwargs) for the caller's functions.
CallFunction(function, pargs, kwargs) ==
    IF function = "identity"
    THEN IF Len(pargs) = 1 /\ DOMAIN kwargs = {}
         THEN Outcome("none", pargs[1], pargs[1], TRUE, <<>>, <<>>, <<>>)
         ELSE Outcome("TypeError:arguments", NoneObj, pargs[1], FALSE, <<>>, <<>>, <<>>)
    ELSE IF function = "select"
    THEN select(pargs[1], Tail(pargs), kwargs)
    ELSE Outcome("none", Received(pargs, kwargs), pargs[1], FALSE, <<>>, <<>>, <<>>)

\* Variant: the arguments are normalised before the function is called.
pipe_normalizing(self, function, args, kwargs) ==
    LET n == flatten_and_extract(self, args, kwargs)
    IN  IF n.err # "none"
        THEN Outcome(n.err, NoneObj, self, FALSE, <<"_flatten_and_extract">>, <<>>, <<>>)
        ELSE LET r == CallFunction(function, <<self>> \o n.args, n.kwargs)
             IN  [r EXCEPT !.trace = <<"function">> \o r.trace, !.self = self]

pipe(self, function, args, kwargs) ==
    LET r == CallFunction(function, <<self>> \o args, kwargs)
    IN  [r EXCEPT !.trace = <<"function">> \o r.trace, !.self = self]

\* Series operations
SeriesForwardAndWrap(self, m, nargs, nkwargs) ==
    LET r == EngineCall(self.series, m, nargs, nkwargs)
    IN  IF r.err # "none"
        THEN Outcome(r.err, NoneObj, self, FALSE, <<Native(m)>>, nargs, nkwargs)
        ELSE LET c == from_series(self, r.ret)
             IN  Outcome(c.err, c.ret, self, FALSE, <<Native(m), "_from_series">>, nargs, nkwargs)

is_in(self, other) == SeriesForwardAndWrap(self, "is_in", <<Series_extract_native(self, other)>>, <<>>)

alias(self, name) == SeriesForwardAndWrap(self, "alias", <<>>, [name |-> name])

\* self._series.__class__(<native result>) of the str and dt namespaces.
NamespaceCall(self, m, nargs) ==
    LET r == EngineCall(self.series, m, nargs, <<>>)
    IN  IF r.err # "none"
        THEN Outcome(r.err, NoneObj, self, FALSE, <<Native(m)>>, nargs, <<>>)
        ELSE LET c == Series_init(r.ret, FALSE)
             IN  Outcome(c.err, c.ret, self, FALSE, <<Native(m), "Series">>, nargs, <<>>)

\* SeriesStringNamespace.ends_with
str_ends_with(self, suffix) == NamespaceCall(self, "str.ends_with", <<suffix>>)

\* SeriesStringNamespace.head
str_head(self, n) ==
    IF self.is_polars THEN NamespaceCall(self, "str.slice", <<IntLit(0), n>>)
    ELSE NamespaceCall(self, "str.head", <<n>>)

\* SeriesDateTimeNamespace.year
dt_year(self) == NamespaceCall(self, "dt.year", <<>>)

\* Variant: the as_series argument is not forwarded.
to_dict_default_only(self, as_series) ==
    LET kw == [as_series |-> Obj("bool", "builtins", <<"True">>)]
        r == EngineCall(self.dataframe, "to_dict", <<>>, kw)
    IN  Outcome(r.err, r.ret, self, FALSE, <<Native("to_dict")>>, <<>>, kw)

\* DataFrame.to_dict(*, as_series=True)
to_dict(self, as_series) ==
    LET kw == [as_series |-> Obj("bool", "builtins", <<IF as_series THEN "True" ELSE "False">>)]
        r == EngineCall(self.dataframe, "to_dict", <<>>, kw)
    IN  Outcome(r.err, r.ret, self, FALSE, <<Native("to_dict")>>, <<>>, kw)

mean(self) ==
    LET r == EngineCall(self.series, "mean", <<>>, <<>>)
    IN  Outcome(r.err, r.ret, self, FALSE, <<Native("mean")>>, <<>>, <<>>)

(***************************************************************************)
(* The session: state, inputs and actions.                                 *)
(***************************************************************************)
Idle == [op |-> "idle"]

NoChain == [stage |-> 0, root |-> FALSE]

Bool(b) == Obj("bool", "builtins", <<IF b THEN "True" ELSE "False">>)

\* The facades the client builds from the objects it holds, to use as the
\* other operand of a join or as an argument.
Others ==
    {c.ret : c \in {r \in {Construct(cls, o, FALSE) : cls \in FacadeKinds,
                                                     o \in RawObjects(installed)} :
                     r.err = "none"}}

\* An instance of a subclass of Series that a client defines in a module
\* named polars_ext.
SubclassSeries ==
    [kind |-> "nw.Series", series |-> Obj("pl.Series", "polars", <<"a">>), is_polars |-> TRUE,
     module |-> "polars_ext"]

\* One frame facade and one Series facade used as argument values.
ArgFacades ==
    (IF "polars" \in installed
     THEN {nwDataFrame(Obj("pl.DataFrame", "polars", AB), TRUE)}
     ELSE {f \in Others : f.kind = "nw.DataFrame" /\ f.dataframe.impl = "pandas"})
    \cup (IF "pandas" \in installed
          THEN {nwSeries(Obj("PandasSeries", "pandas", <<"a">>), FALSE)}
          ELSE {f \in Others : f.kind = "nw.Series"})

\* Leaf values of positional and keyword arguments.
\* An instance of a class that a client defines in a module named
\* polars_ext and that is no narwhals class: its type name contains
\* "polars" whether or not the Polars library is installed.
ForeignNamed == [kind |-> "ext.Column", impl |-> "client", cols |-> <<"a">>, module |-> "polars_ext"]

Leaves ==
    {Str("a"), NwExpr("a"), ForeignNamed}
    \cup (IF "polars" \in installed THEN {PlExpr("a"), SubclassSeries} ELSE {})
    \cup (IF "pandas" \in installed THEN {Obj("pd.Series", "pandas", <<"a">>)} ELSE {})
    \cup ArgFacades

ListLeaves == {Str("a"), Str("b")} \cup (IF "polars" \in installed THEN {PlExpr("a")} ELSE {})

\* Sequence arguments: lists of up to MaxList leaves, and one list that
\* holds a list.
Lists == {List(s) : s \in SeqUpTo(ListLeaves, MaxList) \ {<<>>}}
         \cup {List(<<List(<<Str("a")>>)>>)}

\* Positional arguments: up to MaxArgs leaves, or one sequence argument.
Positionals == SeqUpTo(Leaves, MaxArgs) \cup {<<l>> : l \in Lists}

\* Keyword arguments of select and with_columns: none, or b=<leaf>.
Keywords == {<<>>} \cup {[b |-> v] : v \in ListLeaves \cup {NwExpr("a"), List(<<NwExpr("a")>>)}}

\* Positional and keyword arguments of one call of select or with_columns.
CallShapes == {<<a, <<>>>> : a \in Positionals}
              \cup {<<a, k>> : a \in SeqUpTo(Leaves, 1), k \in Keywords}

\* The arguments a caller gives to pipe after the function.
PipeShapes == {<<a, <<>>>> : a \in SeqUpTo(Leaves, 1)}
              \cup {<<<<>>, k>> : k \in Keywords}

\* The caller is between two calls.
Ready == last.op = "idle"

Init ==
    /\ installed \in SUBSET Libs
    /\ x = NoneObj
    /\ chain = NoChain
    /\ last = Idle

\* The record of a call and the session after it: a facade returned becomes
\* the next receiver; otherwise the caller keeps the receiver as the call
\* left it.
CallRecord(op, recv, args, kwargs, out) ==
    [op |-> op, recv |-> recv, args |-> args, kwargs |-> kwargs,
     err |-> out.err, ret |-> out.ret, self |-> out.self, same |-> out.same,
     trace |-> out.trace, nargs |-> out.nargs, nkwargs |-> out.nkwargs]

Returned(op, recv, args, kwargs, out) ==
    /\ last' = CallRecord(op, recv, args, kwargs, out)
    /\ x' = IF out.err = "none" /\ IsFacade(out.ret) THEN out.ret ELSE out.self
    /\ chain' =
         IF out.err # "none" \/ ~IsFacade(out.ret) \/ out.same THEN chain
         ELSE IF op = "select" /\ recv.kind = "nw.DataFrame"
              THEN [stage |-> 1, root |-> recv.is_polars]
         ELSE IF op = "lazy" /\ chain.stage = 1 THEN [chain EXCEPT !.stage = 2]
         ELSE IF op = "collect" /\ chain.stage = 2 THEN [chain EXCEPT !.stage = 3]
         ELSE NoChain
    /\ UNCHANGED installed

\* cls(obj, is_polars=...) called by the client, on an object of an installed
\* library or on the facade it holds (a facade is passed with the default
\* is_polars).
New(cls) ==
    /\ Ready
    /\ \E obj \in RawObjects(installed) \cup {f \in {x} : IsFacade(f)},
          is_polars \in BOOLEAN :
           /\ IsFacade(obj) => ~is_polars
           /\ LET c == Construct(cls, obj, is_polars)
              IN  Returned(cls, x, <<obj>>, [is_polars |-> Bool(is_polars)],
                           Outcome(c.err, c.ret, x, FALSE, <<>>, <<>>, <<>>))

NewDataFrame == New("nw.DataFrame")
NewLazyFrame == New("nw.LazyFrame")
NewSeries == New("nw.Series")

Select ==
    /\ Ready
    /\ IsFrame(x)
    /\ \E c \in CallShapes : Returned("select", x, c[1], c[2], select(x, c[1], c[2]))

WithColumns ==
    /\ Ready
    /\ IsFrame(x)
    /\ \E c \in CallShapes : Returned("with_columns", x, c[1], c[2], with_columns(x, c[1], c[2]))

Filter ==
    /\ Ready
    /\ IsFrame(x)
    /\ \E a \in Positionals : Returned("filter", x, a, <<>>, filter(x, a))

\* Arguments of the operations that take column names, a mapping or a count.
PlainArgs == ListLeaves \cup {NwExpr("a"), Dict("a", "b"), IntLit(1), List(<<Str("a")>>)}

Rename ==
    /\ Ready
    /\ IsFrame(x)
    /\ \E a \in PlainArgs : Returned("rename", x, <<a>>, <<>>, rename(x, a))

HeadOp ==
    /\ Ready
    /\ IsFrame(x)
    /\ \E a \in PlainArgs : Returned("head", x, <<a>>, <<>>, head(x, a))

Drop ==
    /\ Ready
    /\ IsFrame(x)
    /\ \E a \in PlainArgs : Returned("drop", x, <<a>>, <<>>, drop(x, <<a>>))

Unique ==
    /\ Ready
    /\ IsFrame(x)
    /\ \E a \in PlainArgs : Returned("unique", x, <<>>, [subset |-> a], unique(x, a))

Sort ==
    /\ Ready
    /\ IsFrame(x)
    /\ \E a \in PlainArgs :
         Returned("sort", x, <<a>>, [descending |-> Bool(FALSE)], sort(x, a, <<>>, Bool(FALSE)))

DropNulls ==
    /\ Ready
    /\ IsFrame(x)
    /\ Returned("drop_nulls", x, <<>>, <<>>, drop_nulls(x))

Join ==
    /\ Ready
    /\ IsFrame(x)
    /\ \E other \in {f \in Others : IsFrame(f)}, how \in {Str("inner"), Str("left")} :
         Returned("join", x, <<other>>,
                  [how |-> how, left_on |-> Str("a"), right_on |-> Str("a")],
                  join(x, other, how, Str("a"), Str("a")))

Lazy ==
    /\ Ready
    /\ IsFrame(x)
    /\ Returned("lazy", x, <<>>, <<>>, lazy(x))

Collect ==
    /\ Ready
    /\ x.kind = "nw.LazyFrame"
    /\ Returned("collect", x, <<>>, <<>>, collect(x))

GetItem ==
    /\ Ready
    /\ x.kind = "nw.DataFrame"
    /\ \E c \in {Str("a"), Str("c")} : Returned("getitem", x, <<c>>, <<>>, getitem(x, c))

Schema ==
    /\ Ready
    /\ IsFrame(x)
    /\ Returned("schema", x, <<>>, <<>>, schema(x))

Pipe ==
    /\ Ready
    /\ IsFrame(x)
    /\ \E f \in PipeFunctions, c \in PipeShapes :
         Returned("pipe", x, <<Str(f)>> \o c[1], c[2], pipe(x, f, c[1], c[2]))

IsIn ==
    /\ Ready
    /\ IsSeries(x)
    /\ \E o \in Leaves : Returned("is_in", x, <<o>>, <<>>, is_in(x, o))

Alias ==
    /\ Ready
    /\ IsSeries(x)
    /\ Returned("alias", x, <<>>, [name |-> Str("b")], alias(x, Str("b")))

Mean ==
    /\ Ready
    /\ IsSeries(x)
    /\ Returned("mean", x, <<>>, <<>>, mean(x))

StrEndsWith ==
    /\ Ready
    /\ IsSeries(x)
    /\ Returned("str.ends_with", x, <<Str("a")>>, <<>>, str_ends_with(x, Str("a")))

StrHeadOp ==
    /\ Ready
    /\ IsSeries(x)
    /\ \E n \in 0..MaxHead :
         Returned("str.head", x, <<IntLit(n)>>, <<>>, str_head(x, IntLit(n)))

DtYear ==
    /\ Ready
    /\ IsSeries(x)
    /\ Returned("dt.year", x, <<>>, <<>>, dt_year(x))

\* to_dict() and to_dict(as_series=...): the parameter defaults to True.
ToDict ==
    /\ Ready
    /\ x.kind = "nw.DataFrame"
    /\ \/ Returned("to_dict", x, <<>>, <<>>, to_dict(x, TRUE))
       \/ \E b \in BOOLEAN : Returned("to_dict", x, <<>>, [as_series |-> Bool(b)], to_dict(x, b))

\* The caller moves on to its next statement.
Forget ==
    /\ last.op # "idle"
    /\ last' = Idle
    /\ UNCHANGED <<installed, x, chain>>

Next ==
    \/ NewDataFrame \/ NewLazyFrame \/ NewSeries
    \/ Select \/ WithColumns \/ Filter \/ Rename \/ HeadOp \/ Drop \/ Unique \/ Sort
    \/ DropNulls \/ Join \/ Lazy \/ Collect \/ GetItem \/ Schema \/ Pipe
    \/ IsIn \/ Alias \/ Mean \/ ToDict
    \/ StrEndsWith \/ StrHeadOp \/ DtYear
    \/ Forget

Spec == Init /\ [][Next]_vars

(***************************************************************************)
(* Sessions over frames whose values are followed: a frame is built from   *)
(* an engine frame with one integer column, col("a") * k is selected, and  *)
(* the result is converted with to_dict; or a Series is built from an      *)
(* engine series of strings and str.head is applied.  A session builds one *)
(* object.  `chain` remembers the values a frame session started from and  *)
(* the factor.                                                             *)
(***************************************************************************)
Values == 1..MaxValue

Columns == UNION {[1..n -> Values] : n \in 0..MaxRows}

DataFrames(I) ==
    (IF "polars" \in I THEN {DataFrameOf("pl.DataFrame", "polars", v) : v \in Columns} ELSE {})
    \cup (IF "pandas" \in I THEN {DataFrameOf("pd.DataFrame", "pandas", v) : v \in Columns}
          ELSE {})

\* Strings are sequences of characters.
Alphabet == {"x", "y"}

Strings == UNION {[1..n -> Alphabet] : n \in 0..MaxChars}

StringColumns == UNION {[1..n -> Strings] : n \in 0..MaxStrings}

\* An engine series named "a" holding the given strings.
SeriesOf(kind, impl, values) ==
    [kind |-> kind, impl |-> impl, cols |-> <<"a">>, data |-> [a |-> values]]

StringSeries(I) ==
    (IF "polars" \in I THEN {SeriesOf("pl.Series", "polars", v) : v \in StringColumns} ELSE {})
    \cup (IF "pandas" \in I THEN {SeriesOf("pd.Series", "pandas", v) : v \in StringColumns}
          ELSE {})

DataInit ==
    /\ installed \in SUBSET {"polars", "pandas"}
    /\ x = NoneObj
    /\ chain = NoChain
    /\ last = Idle

DataNew ==
    /\ Ready
    /\ x = NoneObj
    /\ \E obj \in DataFrames(installed) :
         LET c == DataFrame_init(obj, FALSE)
         IN  /\ c.err = "none"
             /\ last' = CallRecord("nw.DataFrame", x, <<obj>>, [is_polars |-> Bool(FALSE)],
                                   Outcome(c.err, c.ret, x, FALSE, <<>>, <<>>, <<>>))
             /\ x' = c.ret
             /\ chain' = [stage |-> 1, input |-> obj.data.a]
    /\ UNCHANGED installed

DataSelect ==
    /\ Ready
    /\ chain.stage = 1
    /\ \E k \in 1..MaxFactor :
         LET out == select(x, <<NwExprMul("a", k)>>, <<>>)
         IN  /\ out.err = "none"
             /\ last' = CallRecord("select", x, <<NwExprMul("a", k)>>, <<>>, out)
             /\ x' = out.ret
             /\ chain' = [stage |-> 2, input |-> chain.input, factor |-> k]
    /\ UNCHANGED installed

DataToDict ==
    /\ Ready
    /\ chain.stage = 2
    /\ \/ last' = CallRecord("to_dict", x, <<>>, <<>>, to_dict(x, TRUE))
       \/ \E b \in BOOLEAN :
            last' = CallRecord("to_dict", x, <<>>, [as_series |-> Bool(b)], to_dict(x, b))
    /\ UNCHANGED <<installed, x, chain>>

DataNewSeries ==
    /\ Ready
    /\ x = NoneObj
    /\ \E obj \in StringSeries(installed), is_polars \in BOOLEAN :
         LET c == Series_init(obj, is_polars)
         IN  Returned("nw.Series", x, <<obj>>, [is_polars |-> Bool(is_polars)],
                      Outcome(c.err, c.ret, x, FALSE, <<>>, <<>>, <<>>))

DataStrHead ==
    /\ Ready
    /\ IsSeries(x)
    /\ \E n \in 0..MaxHead :
         Returned("str.head", x, <<IntLit(n)>>, <<>>, str_head(x, IntLit(n)))

DataNext ==
    \/ DataNew \/ DataSelect \/ DataToDict
    \/ DataNewSeries \/ DataStrHead
    \/ Forget

DataSpec == DataInit /\ [][DataNext]_vars

(***************************************************************************)
(* Properties.                                                             *)
(***************************************************************************)
NormalizingOps == {"select", "with_columns", "filter"}
ForwardingOps == {"rename", "head", "drop", "sort"}
MethodOps == FrameOps \cup {"lazy", "collect", "pipe", "getitem", "is_in", "alias", "mean"}

Succeeded == last.err = "none"

\* The last call reached the native operation of its own name.
NativeInvoked == Native(last.op) \in Range(last.trace)

\* The leaf values of the last call: the flattened positional arguments and
\* the keyword values.
LeavesOfCall == Range(flatten(last.args)) \cup {last.kwargs[k] : k \in DOMAIN last.kwargs}

\* The engine behind a facade, read from the object it wraps.
Backing(f) ==
    IF Wrapped(f).kind \in PolarsKinds THEN "polars"
    ELSE IF Wrapped(f).kind \in {"PandasDataFrame", "PandasSeries"} THEN "adapter"
    ELSE "other"

\* C1 (as claimed): every DataFrame(...) call on a Polars LazyFrame fails
\* with the dedicated wrong-mode TypeError.
C1_LazyInputAlwaysWrongMode ==
    (last.op = "nw.DataFrame" /\ last.args[1].kind = "pl.LazyFrame")
        => last.err = "TypeError:wrong_mode"

\* C2 (as claimed): passing a facade of type T to the constructor of T
\* succeeds and gives a facade with the same wrapped object and flag.
C2_RewrapIdempotent ==
    (last.op \in FacadeKinds /\ last.args[1].kind = last.op)
        => /\ Succeeded
           /\ Wrapped(last.ret) = Wrapped(last.args[1])
           /\ last.ret.is_polars = last.args[1].is_polars

\* C3: a join with a mode other than "inner" raises the not-implemented
\* error after the mode test alone: before the same-library validation,
\* before the other operand is unwrapped and before any native call.
C3_NonInnerJoinFailsFirst ==
    (last.op = "join" /\ last.kwargs.how # Str("inner"))
        => /\ last.err = "NotImplementedError"
           /\ Range(last.trace) \cap
                 {"validate_same_library", "_extract_native", Native("join"), "_from_dataframe"} = {}
           /\ last.nargs = <<>>

C3_Witness ==
    /\ last.op = "join"
    /\ last.kwargs.how = Str("left")
    /\ last.recv.is_polars # last.args[1].is_polars
    /\ last.err = "NotImplementedError"

\* C4 (as claimed): an inner join of a Polars-backed operand with an
\* adapter-backed operand fails with the cross-library error and never
\* reaches the native join.
C4_CrossLibraryJoinFails ==
    (/\ last.op = "join"
     /\ last.kwargs.how = Str("inner")
     /\ {Backing(last.recv), Backing(last.args[1])} = {"polars", "adapter"})
        => /\ last.err = "CrossLibraryError"
           /\ ~NativeInvoked

\* C5 (as claimed): no operation changes its receiver, and every facade an
\* operation returns is a new instance.
C5_AlwaysNewInstance ==
    last.op \in MethodOps
        => /\ last.self = last.recv
           /\ (Succeeded /\ IsFacade(last.ret)) => ~last.same

\* C5 (amended): no operation changes its receiver; every facade returned by
\* an operation other than pipe is a new instance, and pipe returns what the
\* function returns, which is the receiver itself for the identity.
C5_ReceiverUnchanged ==
    last.op \in MethodOps
        => /\ last.self = last.recv
           /\ ~(Succeeded /\ IsFacade(last.ret)) => x = last.recv
           /\ (Succeeded /\ IsFacade(last.ret) /\ last.op # "pipe") => ~last.same
           /\ last.same => last.ret = last.recv

C5_Witness ==
    /\ last.op = "rename"
    /\ Succeeded
    /\ Wrapped(last.ret).cols # Wrapped(last.recv).cols
    /\ last.self = last.recv
    /\ x = last.ret

\* C6 (as claimed): the DataFrame that select, lazy and collect give in turn
\* has the flag of the DataFrame the chain started from.
C6_ChainKeepsFlag == chain.stage = 3 => x.is_polars = chain.root

\* C7: the ten forwarding operations return a facade of the receiver's class
\* with the receiver's flag; lazy returns a LazyFrame and collect a DataFrame.
C7_SameClassSameFlag ==
    /\ (last.op \in FrameOps /\ Succeeded)
          => last.ret.kind = last.recv.kind /\ last.ret.is_polars = last.recv.is_polars
    /\ (last.op = "lazy" /\ Succeeded) => last.ret.kind = "nw.LazyFrame"
    /\ (last.op = "collect" /\ Succeeded) => last.ret.kind = "nw.DataFrame"

C7_Witness ==
    /\ last.op = "select"
    /\ Succeeded
    /\ last.recv.kind = "nw.LazyFrame"
    /\ ~last.recv.is_polars
    /\ last.ret.kind = "nw.LazyFrame"

C9_Expected(f, a) ==
    IF a.kind \in FrameKinds THEN Ok(a.dataframe)
    ELSE IF a.kind = "nw.Series" THEN Ok(a.series)
    ELSE IF a.kind = "nw.Expr"
         THEN IF narwhals_namespace(f).err # "none"
              THEN Raise(narwhals_namespace(f).err)
              ELSE Ok(Expr_call(a, narwhals_namespace(f).ret))
    ELSE IF "polars" \in installed
            /\ (a.kind \in PolarsKinds \/ ("module" \in DOMAIN a /\ a.module = "polars_ext"))
         THEN Raise("TypeError:guidance")
    ELSE Ok(a)

\* C9: every leaf is normalised by the case analysis, tried in its order:
\* frame facade, Series facade, Expression, foreign native value, anything
\* else; the first leaf that fails decides the error of the call.
C9_LeafCaseAnalysis ==
    last.op \in NormalizingOps
        => LET flat == flatten(last.args)
               ea == [i \in DOMAIN flat |-> C9_Expected(last.recv, flat[i])]
               ek == [k \in DOMAIN last.kwargs |-> C9_Expected(last.recv, last.kwargs[k])]
               badA == {i \in DOMAIN flat : ea[i].err # "none"}
               badK == {k \in DOMAIN last.kwargs : ek[k].err # "none"}
           IN  IF badA = {} /\ badK = {}
               THEN /\ NativeInvoked
                    /\ last.nargs = [i \in DOMAIN flat |-> ea[i].ret]
                    /\ last.nkwargs = [k \in DOMAIN last.kwargs |-> ek[k].ret]
               ELSE /\ ~NativeInvoked
                    /\ badA # {} => last.err = ea[Min(badA)].err
                    /\ badA = {} => last.err \in {ek[k].err : k \in badK}

C9_Witness ==
    /\ last.op = "select"
    /\ last.args = <<SubclassSeries, NwExpr("a")>>
    /\ ~last.recv.is_polars
    /\ NativeInvoked
    /\ last.nargs = <<SubclassSeries.series, Obj("PandasExpr", "pandas_like", <<"a">>)>>

\* C10 (as claimed): an argument of select, with_columns or filter that is a
\* raw native object of another engine than the one behind the receiver (a
\* Polars object or a row-oriented adapter) makes the call
\* fail with the guidance TypeError before the native operation.
C10_ForeignEngineRejected ==
    (/\ last.op \in NormalizingOps
     /\ \E a \in LeavesOfCall :
          a.kind \in PolarsKinds \cup {"pd.Series"} /\ a.impl # Wrapped(last.recv).impl
     /\ Backing(last.recv) # "other")
        => last.err = "TypeError:guidance" /\ ~NativeInvoked

\* C10 (amended): when Polars can be imported, an argument of select,
\* with_columns or filter (a positional leaf after flattening, or a keyword
\* value) that is a raw object of a Polars type makes the call fail with
\* the guidance TypeError before the native operation, whatever the
\* receiver's engine; raw objects of other libraries are not detected.
C10_PolarsObjectRejected ==
    (/\ last.op \in NormalizingOps
     /\ "polars" \in installed
     /\ \E a \in LeavesOfCall : a.kind \in PolarsKinds)
        => last.err = "TypeError:guidance" /\ ~NativeInvoked

C10_Witness ==
    /\ last.op = "with_columns"
    /\ Wrapped(last.recv).kind = "pl.DataFrame"
    /\ PlExpr("a") \in LeavesOfCall
    /\ last.err = "TypeError:guidance"
    /\ ~NativeInvoked

\* The elements of the positional arguments, one level down, in order.
RECURSIVE C11_OneLevel(_)
C11_OneLevel(args) ==
    IF args = <<>> THEN <<>>
    ELSE (IF Head(args).kind = "list" THEN Head(args).items ELSE <<Head(args)>>)
         \o C11_OneLevel(Tail(args))

MarkerOf(cls) ==
    CASE cls = "nw.DataFrame" -> "__narwhals_dataframe__"
      [] cls = "nw.LazyFrame" -> "__narwhals_lazyframe__"
      [] cls = "nw.Series" -> "__narwhals_series__"

\* The engine types each constructor names in an isinstance test.
EngineTypesOf(cls) ==
    CASE cls = "nw.DataFrame" ->
            {"pl.DataFrame", "pl.LazyFrame", "pd.DataFrame", "mpd.DataFrame", "cudf.DataFrame"}
      [] cls = "nw.LazyFrame" ->
            {"pl.DataFrame", "pl.LazyFrame", "pd.DataFrame", "mpd.DataFrame", "cudf.DataFrame"}
      [] cls = "nw.Series" -> {"pl.Series", "pd.Series"}

\* The last call was a constructor call.
IsConstructorCall == last.op \in FacadeKinds

\* C12 (as claimed): a constructor input that has no marker and is of no
\* engine type the constructor recognises is rejected with the TypeError
\* that names its type, and no facade is created.
C12_UnrecognizedInputRejected ==
    (/\ IsConstructorCall
     /\ ~HasAttr(last.args[1], MarkerOf(last.op))
     /\ last.args[1].kind \notin EngineTypesOf(last.op))
        => /\ last.err = "TypeError:unrecognized"
           /\ ~IsFacade(last.ret)
           /\ x = last.recv

\* C13: an input that carries the constructor's marker is taken through the
\* marker path whatever library it is an instance of: the call succeeds,
\* the facade wraps what the marker method returns (no lazy() call, no
\* adapter built) and keeps the flag as it was passed.
C13_MarkerPathFirst ==
    (IsConstructorCall /\ HasAttr(last.args[1], MarkerOf(last.op)))
        => /\ Succeeded
           /\ last.ret.kind = last.op
           /\ Wrapped(last.ret) = last.args[1]
           /\ Bool(last.ret.is_polars) = last.kwargs.is_polars

C13_Witness ==
    /\ last.op = "nw.DataFrame"
    /\ last.args[1] = MarkedFrame
    /\ last.kwargs.is_polars = Bool(FALSE)
    /\ Succeeded
    /\ ~last.ret.is_polars

\* C14: whatever libraries are installed, no constructor call fails because
\* a library cannot be imported; with the default flag, an input of an
\* engine type of an installed library is recognised: a Polars object is
\* wrapped as it is (as its lazy form by LazyFrame) with the flag set, a
\* pandas-like one in an adapter of its implementation with the flag clear;
\* only DataFrame on a Polars LazyFrame is refused, with the wrong-mode error.
C14_MissingLibrarySkipped ==
    IsConstructorCall
        => /\ last.err # "ImportError"
           /\ (/\ last.kwargs.is_polars = Bool(FALSE)
               /\ last.args[1].kind \in EngineTypesOf(last.op)
               /\ ~HasAttr(last.args[1], MarkerOf(last.op)))
                 => IF last.op = "nw.DataFrame" /\ last.args[1].kind = "pl.LazyFrame"
                    THEN last.err = "TypeError:wrong_mode"
                    ELSE /\ Succeeded
                         /\ last.ret.kind = last.op
                         /\ Wrapped(last.ret).cols = last.args[1].cols
                         /\ Wrapped(last.ret).impl = last.args[1].impl
                         /\ last.ret.is_polars = (last.args[1].impl = "polars")
                         /\ Wrapped(last.ret).kind \in
                              (IF last.args[1].impl # "polars"
                               THEN {"PandasDataFrame", "PandasSeries"}
                               ELSE IF last.op = "nw.LazyFrame" THEN {"pl.LazyFrame"}
                               ELSE {last.args[1].kind})

C14_Witness ==
    /\ installed = {"modin"}
    /\ last.op = "nw.DataFrame"
    /\ last.args[1].kind = "mpd.DataFrame"
    /\ last.kwargs.is_polars = Bool(FALSE)
    /\ Succeeded
    /\ Wrapped(last.ret) = Obj("PandasDataFrame", "modin", AB)

\* The native expression that evaluating Expression e for receiver f gives:
\* one of the Polars module when f's flag is set, otherwise one of the
\* namespace of the object f wraps.
C15_Evaluated(f, e) ==
    IF f.is_polars \/ EngineNs(Wrapped(f)) = "polars"
    THEN Obj("pl.Expr", "polars", e.cols)
    ELSE Obj("PandasExpr", "pandas_like", e.cols)

C16_SchemaFollowsNative ==
    (last.op = "schema" /\ Succeeded)
        => LET native == Wrapped(last.recv).cols
               got == last.ret.items
           IN  /\ Len(got) = Len(native)
               /\ \A i \in DOMAIN native :
                    /\ got[i].name = native[i]
                    /\ got[i].dtype = "Int64"
                    /\ NativeDtype(Wrapped(last.recv))
                         = (IF last.recv.is_polars THEN "pl.Int64" ELSE "int64")

C16_Witness ==
    /\ last.op = "schema"
    /\ Succeeded
    /\ Wrapped(last.recv).cols = <<"b", "a">>
    /\ ~last.recv.is_polars
    /\ last.ret.items = <<[name |-> "b", dtype |-> "Int64"], [name |-> "a", dtype |-> "Int64"]>>

\* The operations that call one native operation of their own name.
ForwardedOps == FrameOps \cup {"lazy", "collect", "getitem", "schema"} \cup SeriesOps

\* C17: when the native operation an operation forwards to raises, the
\* call raises that same error: no value is returned, nothing runs after
\* the native call, and the receiver is the same facade as before.
C17_NativeErrorPropagates ==
    (/\ last.op \in ForwardedOps
     /\ NativeInvoked
     /\ EngineCall(Wrapped(last.recv), last.op, last.nargs, last.nkwargs).err # "none")
        => /\ last.err = EngineCall(Wrapped(last.recv), last.op, last.nargs, last.nkwargs).err
           /\ last.ret = NoneObj
           /\ last.trace[Len(last.trace)] = Native(last.op)
           /\ last.self = last.recv
           /\ x = last.recv

C17_Witness ==
    /\ last.op = "filter"
    /\ Wrapped(last.recv).kind = "pl.LazyFrame"
    /\ last.args = <<Str("a"), NwExpr("a")>>
    /\ Wrapped(last.recv).cols = <<"b">>
    /\ last.err = "NativeError"
    /\ x = last.recv

\* C18 (as claimed, for native engine objects and the default flag): when
\* LazyFrame(obj) succeeds, DataFrame(obj).lazy() succeeds too and gives a
\* LazyFrame with the same wrapped object and the same flag.
C18_LazyFrameIsDataFrameLazy ==
    (/\ last.op = "nw.LazyFrame"
     /\ Succeeded
     /\ last.kwargs.is_polars = Bool(FALSE)
     /\ last.args[1].kind \in EngineTypesOf("nw.LazyFrame")
     /\ ~HasAttr(last.args[1], "__narwhals_lazyframe__"))
        => LET d == DataFrame_init(last.args[1], FALSE)
           IN  /\ d.err = "none"
               /\ lazy(d.ret).err = "none"
               /\ lazy(d.ret).ret = last.ret

\* Keyword arguments are the same names bound to the same values.
SameKw(a, b) == DOMAIN a = DOMAIN b /\ \A k \in DOMAIN a : a[k] = b[k]

\* C19: pipe calls the function exactly once, with the receiving facade
\* first and then the positional and keyword arguments exactly as the caller
\* gave them, and returns (or raises) exactly what the function returns (or
\* raises): a function that returns what it received shows the receiver and
\* the untouched arguments, and a function that returns its argument gives
\* back the receiver itself.
C19_PipePassesThrough ==
    last.op = "pipe" =>
        LET function == last.args[1].cols[1]
            given == Tail(last.args)
            direct == CallFunction(function, <<last.recv>> \o given, last.kwargs)
        IN  /\ Cardinality({i \in DOMAIN last.trace : last.trace[i] = "function"}) = 1
            /\ last.trace[1] = "function"
            /\ "_flatten_and_extract" \notin Range(last.trace) \ Range(direct.trace)
            /\ last.err = direct.err
            /\ last.err = "none" => last.ret = direct.ret
            /\ function = "echo" =>
                 /\ last.err = "none"
                 /\ last.ret.kind = "tuple"
                 /\ last.ret.items = <<last.recv>> \o given
                 /\ SameKw(last.ret.kw, last.kwargs)
            /\ (function = "identity" /\ given = <<>> /\ DOMAIN last.kwargs = {}) =>
                 last.err = "none" /\ last.ret = last.recv /\ last.same

\* A function handed a facade argument and a keyword argument by pipe
\* received the receiver and returned a non-facade value.
C19_Witness ==
    /\ last.op = "pipe"
    /\ last.args[1] = Str("echo")
    /\ last.err = "none"
    /\ last.ret.kind = "tuple"
    /\ Len(last.ret.items) = 2
    /\ last.ret.items[2].kind = "nw.Expr"

\* C20 (as claimed, for wrapped objects that are engine objects or adapters):
\* indexing a DataFrame by a column name that the wrapped object has returns
\* a Series facade around that column of the wrapped object, and the Series
\* carries the DataFrame's engine-family flag.
C20_GetItemSeriesOfSameFlag ==
    (/\ last.op = "getitem"
     /\ Succeeded
     /\ "markers" \notin DOMAIN last.recv.dataframe) =>
        LET r == EngineCall(last.recv.dataframe, "getitem", last.args, <<>>)
        IN  /\ last.ret.kind = "nw.Series"
            /\ r.err = "none"
            /\ last.ret.series.impl = r.ret.impl
            /\ last.ret.series.cols = r.ret.cols
            /\ last.ret.is_polars = last.recv.is_polars

\* The values of the session's column after the selection of col("a") * k.
C21_Scaled == [j \in DOMAIN chain.input |-> chain.input[j] * chain.factor]

\* C21 (as claimed): to_dict() with no arguments, on the result of
\* select(col("a") * k), returns the mapping from "a" to the plain list of
\* the scaled values.
C21_ToDictNoArgumentsPlainLists ==
    (last.op = "to_dict" /\ chain.stage = 2 /\ DOMAIN last.kwargs = {}) =>
        /\ Succeeded
        /\ last.ret = Mapping(<<[name |-> "a", values |-> List(C21_Scaled)]>>)

\* C21 (amended): on the result of select(col("a") * k), to_dict(as_series=
\* False) returns the mapping from "a" to the plain list of the scaled
\* values, whatever the backend; to_dict() with no arguments is
\* to_dict(as_series=True) and returns the mapping from "a" to the engine's
\* series holding those values.
C21_ToDictPlainListsOnRequest ==
    (last.op = "to_dict" /\ chain.stage = 2) =>
        /\ Succeeded
        /\ last.trace = <<Native("to_dict")>>
        /\ last.ret.kind = "dict"
        /\ Len(last.ret.items) = 1
        /\ last.ret.items[1].name = "a"
        /\ IF "as_series" \in DOMAIN last.kwargs /\ last.kwargs.as_series = Bool(FALSE)
           THEN last.ret.items[1].values = List(C21_Scaled)
           ELSE /\ last.ret.items[1].values.kind \in {"pl.Series", "PandasSeries"}
                /\ last.ret.items[1].values.data.a = C21_Scaled

\* The scenario on the row-oriented backend: a = [1, 2, 3], col("a") * 2,
\* to_dict(as_series=False) gives {"a": [2, 4, 6]}.
C21_Witness ==
    /\ last.op = "to_dict"
    /\ chain.stage = 2
    /\ chain.input = <<1, 2, 3>>
    /\ chain.factor = 2
    /\ last.recv.dataframe.kind = "PandasDataFrame"
    /\ last.kwargs = [as_series |-> Bool(FALSE)]
    /\ last.ret = Mapping(<<[name |-> "a", values |-> List(<<2, 4, 6>>)]>>)

\* C22 (as claimed): every facade a session holds has its flag set exactly
\* when the object it wraps is a native Polars object, and cleared when the
\* object is a row-oriented adapter, so that the namespace of an
\* adapter-backed frame is never the Polars module.
C22_FlagMatchesWrappedObject ==
    (IsFacade(x) /\ "markers" \notin DOMAIN Wrapped(x)) =>
        /\ Backing(x) = "polars" => x.is_polars
        /\ Backing(x) = "adapter" => ~x.is_polars
        /\ (IsFrame(x) /\ Backing(x) = "adapter") =>
               LET ns == narwhals_namespace(x)
               IN  ns.err = "none" => ns.ret.impl # "polars"

\* C23 (as claimed): a DataFrame facade never wraps a Polars LazyFrame, and
\* a LazyFrame facade over a Polars object wraps a Polars LazyFrame.
C23_EagerLazySeparated ==
    (IsFrame(x) /\ "markers" \notin DOMAIN x.dataframe) =>
        /\ x.kind = "nw.DataFrame" => x.dataframe.kind # "pl.LazyFrame"
        /\ (x.kind = "nw.LazyFrame" /\ Backing(x) = "polars") => x.dataframe.kind = "pl.LazyFrame"

\* A value that is no narwhals frame, series or expression and whose type
\* name contains "polars".
C24_RawPolarsNamed(a) == ~IsFacade(a) /\ a.kind # "nw.Expr" /\ TypeNameHasPolars(a)

\* C24 (as claimed): when Polars can be imported, every argument of a
\* normalising operation whose type name contains "polars" makes the call
\* fail with the guidance TypeError, on any receiver.
C24_PolarsNamedAlwaysRejected ==
    (/\ last.op \in NormalizingOps
     /\ "polars" \in installed
     /\ \E a \in LeavesOfCall : TypeNameHasPolars(a))
        => last.err = "TypeError:guidance"

\* C24 (amended): the foreign-object check looks at the argument only.  When
\* Polars can be imported, an argument that is no narwhals frame, series or
\* expression and whose type name contains "polars" makes the call fail with
\* the guidance TypeError before the native operation, on a Polars-backed
\* receiver as on any other; a narwhals object is unwrapped before the check
\* whatever its type name.  When Polars cannot be imported the check never
\* fires and such values reach the native operation unchanged.
C24_ForeignCheckIgnoresReceiver ==
    last.op \in NormalizingOps =>
        LET flat == flatten(last.args)
        IN  /\ ("polars" \in installed /\ \E a \in LeavesOfCall : C24_RawPolarsNamed(a))
                 => last.err = "TypeError:guidance" /\ ~NativeInvoked
            /\ (\A a \in LeavesOfCall : ~C24_RawPolarsNamed(a)) => last.err # "TypeError:guidance"
            /\ "polars" \notin installed =>
                 /\ last.err # "TypeError:guidance"
                 /\ NativeInvoked =>
                      /\ Len(last.nargs) = Len(flat)
                      /\ \A i \in DOMAIN flat :
                           C24_RawPolarsNamed(flat[i]) => last.nargs[i] = flat[i]
                      /\ \A k \in DOMAIN last.kwargs :
                           C24_RawPolarsNamed(last.kwargs[k]) => last.nkwargs[k] = last.kwargs[k]

\* Polars cannot be imported and a value whose type name contains "polars"
\* was handed to the native operation as given.
C24_Witness ==
    /\ last.op = "select"
    /\ "polars" \notin installed
    /\ NativeInvoked
    /\ last.args = <<ForeignNamed>>
    /\ last.nargs = <<ForeignNamed>>

\* C25: Series(obj, is_polars=flag) succeeds exactly when obj carries the
\* __narwhals_series__ marker, or flag is True, or obj is a Polars series, or
\* obj is a pandas series; every other call raises the TypeError naming the
\* type and builds nothing.  A Modin or cuDF series is among the rejected
\* inputs although the frame constructors accept Modin and cuDF frames.
C25_SeriesConstructorAccepts ==
    last.op = "nw.Series" =>
        LET s == last.args[1]
            flag == last.kwargs.is_polars = Bool(TRUE)
            marked == HasAttr(s, "__narwhals_series__")
            polars == flag \/ ("polars" \in installed /\ s.kind = "pl.Series")
            pandas == "pandas" \in installed /\ s.kind = "pd.Series"
        IN  /\ Succeeded <=> (marked \/ polars \/ pandas)
            /\ ~Succeeded => last.err = "TypeError:unrecognized" /\ x = last.recv
            /\ Succeeded =>
                 /\ last.ret.kind = "nw.Series"
                 /\ marked => last.ret.series = s
                 /\ (~marked /\ polars) => last.ret.series = s /\ last.ret.is_polars
                 /\ (~marked /\ ~polars) => last.ret.series.kind = "PandasSeries"
            /\ (s.kind \in {"mpd.Series", "cudf.Series"} /\ ~flag) =>
                 /\ ~Succeeded
                 /\ DataFrame_init(Obj(IF s.kind = "mpd.Series" THEN "mpd.DataFrame"
                                       ELSE "cudf.DataFrame", s.impl, AB), FALSE).err = "none"
                 /\ LazyFrame_init(Obj(IF s.kind = "mpd.Series" THEN "mpd.DataFrame"
                                       ELSE "cudf.DataFrame", s.impl, AB), FALSE).err = "none"

\* A Modin series given to the Series constructor was rejected.
C25_Witness ==
    /\ last.op = "nw.Series"
    /\ last.args[1].kind = "mpd.Series"
    /\ last.kwargs.is_polars = Bool(FALSE)
    /\ last.err = "TypeError:unrecognized"

\* C26: select and with_columns hand the native operation the caller's
\* keywords, each bound to the normalisation of its own value: the keys are
\* the same, a narwhals object or expression is replaced by its native
\* counterpart, and a sequence is passed as the one value it is, its elements
\* untouched.  filter hands the native operation positional arguments only.
C26_KeywordsValueByValue ==
    (last.op \in NormalizingOps /\ NativeInvoked) =>
        /\ last.op \in {"select", "with_columns"} =>
             /\ DOMAIN last.nkwargs = DOMAIN last.kwargs
             /\ \A k \in DOMAIN last.kwargs :
                  /\ C9_Expected(last.recv, last.kwargs[k]).err = "none"
                  /\ last.nkwargs[k] = C9_Expected(last.recv, last.kwargs[k]).ret
                  /\ last.kwargs[k].kind = "list" => last.nkwargs[k] = last.kwargs[k]
             /\ Len(last.nargs) = Len(flatten(last.args))
        /\ last.op = "filter" =>
             /\ DOMAIN last.nkwargs = {}
             /\ Len(last.nargs) = Len(flatten(last.args))

\* A sequence holding a narwhals expression, given as keyword b, reached
\* the native operation as given.
C26_Witness ==
    /\ last.op = "with_columns"
    /\ NativeInvoked
    /\ DOMAIN last.kwargs = {"b"}
    /\ last.kwargs.b = List(<<NwExpr("a")>>)
    /\ last.nkwargs.b = List(<<NwExpr("a")>>)

\* The Series operations of the model that return a Series, and the
\* reductions.
C27_WrappingOps == {"is_in", "alias", "str.ends_with", "str.head", "dt.year"}

C27_Reductions == {"mean"}

\* C27 (as claimed): a Series operation that returns a Series returns a new
\* Series facade with the receiver's engine-family flag, through
\* _from_series and through the str and dt namespaces alike; a reduction
\* returns the native result unwrapped.
C27_SeriesOpsKeepFlag ==
    (/\ last.op \in C27_WrappingOps \cup C27_Reductions
     /\ "markers" \notin DOMAIN last.recv.series
     /\ Succeeded) =>
        /\ last.op \in C27_WrappingOps =>
             /\ last.ret.kind = "nw.Series"
             /\ ~last.same
             /\ last.ret.is_polars = last.recv.is_polars
        /\ last.op \in C27_Reductions =>
             /\ ~IsFacade(last.ret)
             /\ last.ret = EngineCall(last.recv.series, last.op, <<>>, <<>>).ret

\* The first n characters of s.
C28_FirstChars(s, n) == SubSeq(s, 1, IF n < Len(s) THEN n ELSE Len(s))

====
